---- MODULE Spec2Model ----
(***************************************************************************)
(* The playback controller of the music library web app (MusicPlayer in    *)
(* public/js/player.js) together with the part of the application          *)
(* controller that starts playback (playTrack and the views it reads, in   *)
(* public/js/script.js).                                                   *)
(*                                                                         *)
(* Tracks are identified by their id.  Indices are 0-based as in the code; *)
(* queue[i] of the code is At(queue, i) here.  The audio element is the    *)
(* environment: a call of audio.play() opens a play attempt whose result   *)
(* (the promise settling) arrives in a later step, in any order relative   *)
(* to other attempts, as a success or as a rejection.                      *)
(***************************************************************************)
EXTENDS Integers, Sequences, FiniteSets, TLC

\* ---------------------------------------------------------------- bounds
NumTracks == 4
MaxPending == 2
MaxElapsed == 4

\* ------------------------------------------------------------- constants
NoTrack == 0
Undefined == 0 - 1
RestartThreshold == 3
NaN == 0 - 2
InitialVolume == 80
FullVolume == 100
HalfVolume == 50
VolumeStep == 10
SeekStep == 5

Tracks == 1..NumTracks

\* AppState.tracks once loadInitialData has stored the library
Library == [i \in 1..NumTracks |-> i]

\* the playlists the backend serves through API.getPlaylist (track lists)
PlaylistStore == << <<1, 2, 3>>, <<4>> >>

RepeatModes == <<"off", "all", "one">>

VARIABLES
    currentTrack,     \* this.currentTrack (NoTrack = null)
    queue,            \* this.queue
    currentIndex,     \* this.currentIndex
    isPlaying,        \* this.isPlaying
    isShuffled,       \* this.isShuffled
    repeatMode,       \* this.repeatMode
    audioSrc,         \* track whose url is bound to this.audio.src
    controlsEnabled,  \* what updateControlsState last set
    pending,          \* play attempts whose promise has not settled, oldest first
    currentView,      \* AppState.currentView
    currentPlaylist,  \* AppState.currentPlaylist (0 = null, else index in PlaylistStore)
    searchQuery,      \* AppState.searchQuery ("" or a query)
    rendered,         \* ids of the track cards renderTracks last put on screen
    audioTime,        \* this.audio.currentTime, in seconds
    audioDuration,    \* this.audio.duration, in seconds (NaN while unknown)
    audioPlaying,     \* the element is playing its source
    volume,           \* this.volume, in hundredths
    audioVolume,      \* this.audio.volume, in hundredths
    sliderValue,      \* this.elements.volumeSlider.value
    volumeIcon,       \* tier shown by this.elements.volumeIcon
    muteTrail,        \* history: progress of a mute / unmute pair
    last              \* history: what the last step did

vars == <<currentTrack, queue, currentIndex, isPlaying, isShuffled, repeatMode,
          audioSrc, controlsEnabled, pending,
          currentView, currentPlaylist, searchQuery, rendered,
          audioTime, audioDuration, audioPlaying,
          volume, audioVolume, sliderValue, volumeIcon, muteTrail, last>>

appVars == <<currentView, currentPlaylist, searchQuery, rendered>>

volVars == <<volume, audioVolume, sliderValue, volumeIcon, muteTrail>>

\* ------------------------------------------------------------- helpers
Range(s) == {s[i] : i \in DOMAIN s}

\* q[i] of the code: undefined outside the array
At(q, i) == IF i >= 0 /\ i < Len(q) THEN q[i + 1] ELSE Undefined

\* the % operator of the language: the result takes the sign of the dividend
JSRem(a, n) == IF a >= 0 THEN a % n ELSE 0 - ((0 - a) % n)

\* Array.prototype.findIndex(t => t.id === trackId)
FindIndex(q, trackId) ==
    IF \E i \in 1..Len(q) : q[i] = trackId
    THEN (CHOOSE i \in 1..Len(q) : q[i] = trackId /\ \A j \in 1..(i - 1) : q[j] # trackId) - 1
    ELSE 0 - 1

RemoveAt(s, i) == [j \in 1..(Len(s) - 1) |-> IF j < i THEN s[j] ELSE s[j + 1]]

NoAttempt == [load |-> FALSE, src |-> NoTrack, sup |-> "no"]

\* history record of a step
Did(op, outcome, att, toasts, notified) ==
    [op |-> op, outcome |-> outcome, att |-> att, toasts |-> toasts, notified |-> notified,
     call |-> << >>]

Step(op, toasts) == Did(op, "none", NoAttempt, toasts, NoTrack)

\* the same record, with the arguments the operation was called with
Called(rec, args) == [rec EXCEPT !.call = args]

\* a later command of kind by was issued while the attempts of p were pending
Supersede(p, by) == [i \in DOMAIN p |-> [p[i] EXCEPT !.sup = by]]

\* ----------------------------------------------------- loadTrack pieces
NewQueueMerged(track, hasQueue, q) == IF hasQueue THEN queue \o q ELSE Append(queue, track)

NewQueue(track, hasQueue, q) == IF hasQueue THEN q ELSE <<track>>

NewIndex(hasQueue, startIndex) == IF hasQueue THEN startIndex ELSE 0

\* reading track.url throws when track is undefined; the catch reports it
LoadThrows(track) == track = Undefined

\* audio.play() as called by play(): a new attempt on the bound source
Attempt(fromLoad, src) == [load |-> fromLoad, src |-> src, sup |-> "no"]

\* the synchronous part of loadTrack, up to the await of play()
LoadTrackEffect(track, hasQueue, q, startIndex) ==
    /\ queue' = NewQueue(track, hasQueue, q)
    /\ currentIndex' = NewIndex(hasQueue, startIndex)
    /\ currentTrack' = track
    /\ IF LoadThrows(track)
       THEN UNCHANGED <<audioSrc, controlsEnabled, pending, audioTime,
                        audioDuration, audioPlaying>>
       ELSE /\ audioSrc' = track
            /\ audioTime' = 0
            /\ audioDuration' = NaN
            /\ audioPlaying' = FALSE
            /\ controlsEnabled' = TRUE
            /\ pending' = Append(Supersede(pending, "load"), Attempt(TRUE, track))
    /\ UNCHANGED isPlaying

LoadToasts(track) == IF LoadThrows(track) THEN 1 ELSE 0

CanAttempt == Len(pending) < MaxPending

\* ------------------------------------------------------------ Init
InitLast == Step("init", 0)

Init ==
    /\ currentTrack = NoTrack
    /\ queue = << >>
    /\ currentIndex = 0 - 1
    /\ isPlaying = FALSE
    /\ isShuffled = FALSE
    /\ repeatMode = "off"
    /\ audioSrc = NoTrack
    /\ controlsEnabled = FALSE
    /\ pending = << >>
    /\ currentView = "all-tracks"
    /\ currentPlaylist = 0
    /\ searchQuery = ""
    /\ rendered = Range(Library)
    /\ audioTime = 0
    /\ audioDuration = NaN
    /\ audioPlaying = FALSE
    /\ volume = InitialVolume
    /\ audioVolume = InitialVolume
    /\ sliderValue = InitialVolume
    /\ volumeIcon = "markup"
    /\ muteTrail = "none"
    /\ last = InitLast

\* ------------------------------------------------------- operations
\* the track lists a caller hands to loadTrack
Queues == Range(PlaylistStore) \cup {Library}

\* loadTrack(track, queue, startIndex), called as its contract asks:
\* 0 <= startIndex < queue.length and track the entry at startIndex
LoadTrack(track, hasQueue, q, startIndex) ==
    /\ CanAttempt
    /\ LoadTrackEffect(track, hasQueue, q, startIndex)
    /\ last' = Called(Step("loadTrack", LoadToasts(track)), <<track, hasQueue, q, startIndex>>)
    /\ UNCHANGED <<isShuffled, repeatMode>>
    /\ UNCHANGED appVars
    /\ UNCHANGED volVars

LoadTrackCall ==
    \/ \E q \in Queues : \E i \in 0..(Len(q) - 1) : LoadTrack(At(q, i), TRUE, q, i)
    \/ \E t \in Tracks : LoadTrack(t, FALSE, << >>, 0)

\* click on an item of the queue modal built by showQueue
QueueItemClick ==
    \E index \in 0..(Len(queue) - 1) :
        /\ CanAttempt
        /\ LoadTrackEffect(At(queue, index), TRUE, queue, index)
        /\ last' = Step("queueClick", LoadToasts(At(queue, index)))
        /\ UNCHANGED <<isShuffled, repeatMode>>
        /\ UNCHANGED appVars
        /\ UNCHANGED volVars

\* play(): up to the await of audio.play()
Play ==
    /\ CanAttempt
    /\ pending' = Append(Supersede(pending, "play"), Attempt(FALSE, audioSrc))
    /\ last' = Step("play", 0)
    /\ UNCHANGED <<currentTrack, queue, currentIndex, isPlaying, isShuffled, repeatMode,
                   audioSrc, controlsEnabled, audioTime,
                   audioDuration, audioPlaying>>
    /\ UNCHANGED appVars
    /\ UNCHANGED volVars

Pause ==
    /\ isPlaying' = FALSE
    /\ audioPlaying' = FALSE
    /\ pending' = Supersede(pending, "pause")
    /\ last' = Step("pause", 0)
    /\ UNCHANGED <<currentTrack, queue, currentIndex, isShuffled, repeatMode,
                   audioSrc, controlsEnabled, audioTime, audioDuration>>
    /\ UNCHANGED appVars
    /\ UNCHANGED volVars

\* togglePlayPause without the record of the step
TogglePlayPauseBody ==
    /\ IF isPlaying
       THEN /\ isPlaying' = FALSE
            /\ audioPlaying' = FALSE
            /\ pending' = Supersede(pending, "pause")
       ELSE /\ CanAttempt
            /\ pending' = Append(Supersede(pending, "play"), Attempt(FALSE, audioSrc))
            /\ UNCHANGED <<isPlaying, audioPlaying>>
    /\ UNCHANGED <<currentTrack, queue, currentIndex, isShuffled, repeatMode,
                   audioSrc, controlsEnabled, audioTime, audioDuration>>
    /\ UNCHANGED appVars
    /\ UNCHANGED volVars

TogglePlayPause ==
    /\ TogglePlayPauseBody
    /\ last' = Step("toggle", 0)

NextIndexNoWrap(i, n) == i + 1

NextIndexStopAtEnd(i, n) == IF i + 1 >= n THEN i ELSE i + 1

\* sequential successor in playNext
NextIndex(i, n) == JSRem(i + 1, n)

PrevIndexNoWrap(i, n) == JSRem(i - 1, n)

\* predecessor in playPrevious
PrevIndex(i, n) == JSRem(i - 1 + n, n)

RandomIndexesAvoidCurrent(n) == (0..(n - 1)) \ {currentIndex}

\* Math.floor(Math.random() * n)
RandomIndexes(n) == 0..(n - 1)

\* the body of playNext, shared with handleTrackEnd
PlayNextEffect ==
    IF Len(queue) = 0
    THEN UNCHANGED <<currentTrack, queue, currentIndex, isPlaying, audioSrc,
                     controlsEnabled, pending, audioTime,
                   audioDuration, audioPlaying>>
    ELSE /\ CanAttempt
         /\ \E idx \in (IF isShuffled THEN RandomIndexes(Len(queue))
                                      ELSE {NextIndex(currentIndex, Len(queue))}) :
                LoadTrackEffect(At(queue, idx), TRUE, queue, idx)

PlayNextToasts == IF Len(queue) = 0 THEN 0 ELSE LoadToasts(currentTrack')

\* playNext without the record of the step
PlayNextBody ==
    /\ PlayNextEffect
    /\ UNCHANGED <<isShuffled, repeatMode>>
    /\ UNCHANGED appVars
    /\ UNCHANGED volVars

PlayNext ==
    /\ PlayNextBody
    /\ last' = Step("playNext", PlayNextToasts)

\* the branch playPrevious takes
PreviousLoads(elapsed) == Len(queue) > 0 /\ ~(elapsed > RestartThreshold)

PreviousToasts(elapsed) == IF PreviousLoads(elapsed) THEN LoadToasts(currentTrack') ELSE 0

\* playPrevious without the record of the step;
\* elapsed is audio.currentTime as read by playPrevious
PlayPreviousBody(elapsed) ==
    /\ IF Len(queue) = 0
       THEN UNCHANGED <<currentTrack, queue, currentIndex, isPlaying, audioSrc,
                        controlsEnabled, pending, audioTime, audioDuration, audioPlaying>>
       ELSE IF elapsed > RestartThreshold
       THEN /\ audioTime' = 0
            /\ UNCHANGED <<currentTrack, queue, currentIndex, isPlaying, audioSrc,
                           controlsEnabled, pending, audioDuration, audioPlaying>>
       ELSE /\ CanAttempt
            /\ LoadTrackEffect(At(queue, PrevIndex(currentIndex, Len(queue))), TRUE, queue,
                               PrevIndex(currentIndex, Len(queue)))
    /\ UNCHANGED <<isShuffled, repeatMode>>
    /\ UNCHANGED appVars
    /\ UNCHANGED volVars

PlayPrevious(elapsed) ==
    /\ PlayPreviousBody(elapsed)
    /\ last' = Step("playPrevious", PreviousToasts(elapsed))

ToggleShuffleReorders ==
    /\ isShuffled' = ~isShuffled
    /\ queue' = [i \in 1..Len(queue) |-> queue[Len(queue) + 1 - i]]
    /\ last' = Step("toggleShuffle", 0)
    /\ UNCHANGED <<currentTrack, currentIndex, isPlaying, repeatMode,
                   audioSrc, controlsEnabled, pending, audioTime,
                   audioDuration, audioPlaying>>
    /\ UNCHANGED appVars
    /\ UNCHANGED volVars

\* toggleShuffle without the record of the step
ToggleShuffleBody ==
    /\ isShuffled' = ~isShuffled
    /\ UNCHANGED <<currentTrack, queue, currentIndex, isPlaying, repeatMode,
                   audioSrc, controlsEnabled, pending, audioTime,
                   audioDuration, audioPlaying>>
    /\ UNCHANGED appVars
    /\ UNCHANGED volVars

ToggleShuffle ==
    /\ ToggleShuffleBody
    /\ last' = Step("toggleShuffle", 0)

\* modes.indexOf(mode), 0-based
ModeIndex(mode) == (CHOOSE i \in 1..3 : RepeatModes[i] = mode) - 1

NextModeSkipOne(mode) == IF mode = "off" THEN "all" ELSE "off"

NextMode(mode) == RepeatModes[((ModeIndex(mode) + 1) % 3) + 1]

\* cycleRepeatMode without the record of the step
CycleRepeatModeBody ==
    /\ repeatMode' = NextMode(repeatMode)
    /\ UNCHANGED <<currentTrack, queue, currentIndex, isPlaying, isShuffled,
                   audioSrc, controlsEnabled, pending, audioTime,
                   audioDuration, audioPlaying>>
    /\ UNCHANGED appVars
    /\ UNCHANGED volVars

CycleRepeatMode ==
    /\ CycleRepeatModeBody
    /\ last' = Step("cycleRepeatMode", 0)

TrackEndBranchStopsOneEarly(mode, index, n) ==
    IF mode = "one" THEN "replay"
    ELSE IF mode = "all" \/ index < n - 2 THEN "next"
    ELSE "stop"

TrackEndBranchWrapsWhenOff(mode, index, n) ==
    IF mode = "one" THEN "replay" ELSE "next"

TrackEndBranchIgnoresOne(mode, index, n) ==
    IF mode = "all" \/ index < n - 1 THEN "next" ELSE "stop"

TrackEndBranchIgnoresAll(mode, index, n) ==
    IF mode = "one" THEN "replay"
    ELSE IF index < n - 1 THEN "next"
    ELSE "stop"

\* which branch handleTrackEnd takes
TrackEndBranch(mode, index, n) ==
    IF mode = "one" THEN "replay"
    ELSE IF mode = "all" \/ index < n - 1 THEN "next"
    ELSE "stop"

\* the audio element's ended event; it needs a bound source
HandleTrackEnd ==
    /\ audioSrc # NoTrack
    /\ IF TrackEndBranch(repeatMode, currentIndex, Len(queue)) = "replay"
       THEN /\ CanAttempt
            /\ audioTime' = 0
            /\ audioPlaying' = FALSE
            /\ pending' = Append(Supersede(pending, "play"), Attempt(FALSE, audioSrc))
            /\ UNCHANGED <<currentTrack, queue, currentIndex, isPlaying, audioSrc,
                           controlsEnabled, audioDuration>>
            /\ last' = Step("ended", 0)
       ELSE IF TrackEndBranch(repeatMode, currentIndex, Len(queue)) = "next"
       THEN /\ PlayNextEffect
            /\ last' = Step("ended", PlayNextToasts)
       ELSE /\ isPlaying' = FALSE
            /\ audioPlaying' = FALSE
            /\ pending' = Supersede(pending, "pause")
            /\ audioTime' = 0
            /\ UNCHANGED <<currentTrack, queue, currentIndex, audioSrc, controlsEnabled,
                           audioDuration>>
            /\ last' = Step("ended", 0)
    /\ UNCHANGED <<isShuffled, repeatMode>>
    /\ UNCHANGED appVars
    /\ UNCHANGED volVars

\* playback progresses on the bound source (the timeupdate event reports it)
TimeUpdate ==
    /\ audioSrc # NoTrack
    /\ audioTime < MaxElapsed
    /\ audioDuration = NaN \/ audioTime < audioDuration
    /\ audioTime' = audioTime + 1
    /\ last' = Step("timeupdate", 0)
    /\ UNCHANGED <<currentTrack, queue, currentIndex, isPlaying, isShuffled, repeatMode,
                   audioSrc, controlsEnabled, pending, audioDuration, audioPlaying>>
    /\ UNCHANGED appVars
    /\ UNCHANGED volVars

\* ------------------------------------------------------------ volume
\* volumes are in hundredths: 80 is the 0.8 of the code
Min(a, b) == IF a < b THEN a ELSE b

Max(a, b) == IF a > b THEN a ELSE b

ClampVolumeUpperOnly(value) == Min(FullVolume, value)

\* Math.max(0, Math.min(1, value))
ClampVolume(value) == Max(0, Min(FullVolume, value))

VolumeTierLowAtHalf(v) ==
    IF v = 0 THEN "muted" ELSE IF v <= HalfVolume THEN "low" ELSE "full"

\* updateVolumeIcon
VolumeTier(v) ==
    IF v = 0 THEN "muted" ELSE IF v < HalfVolume THEN "low" ELSE "full"

playerVars == <<currentTrack, queue, currentIndex, isPlaying, isShuffled, repeatMode,
                audioSrc, controlsEnabled, pending, audioTime,
                   audioDuration, audioPlaying>>

\* the values handed to setVolume: the slider's 0..100 and values beyond
VolumeOver == 10

VolumeInputs == (0 - VolumeOver)..(FullVolume + VolumeOver)

\* what setVolume(value) writes, without the record of the step
SetVolumeBody(value) ==
    /\ volume' = ClampVolume(value)
    /\ audioVolume' = volume'
    /\ volumeIcon' = VolumeTier(audioVolume')
    /\ muteTrail' = IF muteTrail \in {"muted", "mutedThenSet"} THEN "mutedThenSet" ELSE "none"
    /\ UNCHANGED playerVars
    /\ UNCHANGED appVars

SetVolumeEffect(value) ==
    /\ SetVolumeBody(value)
    /\ last' = Called(Step("setVolume", 0), <<value>>)

\* a direct call of setVolume
SetVolume(value) ==
    /\ SetVolumeEffect(value)
    /\ UNCHANGED sliderValue

\* the slider's input event: the slider has moved to position, the listener
\* calls setVolume(position / 100)
SliderInput(position) ==
    /\ sliderValue' = position
    /\ SetVolumeEffect(position)

MuteTargetFull(output, stored) == IF output > 0 THEN 0 ELSE FullVolume

\* the audio.volume toggleMute sets
MuteTarget(output, stored) == IF output > 0 THEN 0 ELSE stored

\* muteTrail after a toggleMute: "muted" after the first toggle of a pair
\* begun with audible output, "done" after the second, "doneAfterSet" when
\* setVolume was called between the two
TrailAfterToggle ==
    CASE muteTrail = "muted" -> "done"
      [] muteTrail = "mutedThenSet" -> "doneAfterSet"
      [] OTHER -> IF audioVolume > 0 THEN "muted" ELSE "none"

\* toggleMute without the record of the step
ToggleMuteBody ==
    /\ audioVolume' = MuteTarget(audioVolume, volume)
    /\ sliderValue' = audioVolume'
    /\ volumeIcon' = VolumeTier(audioVolume')
    /\ muteTrail' = TrailAfterToggle
    /\ UNCHANGED volume
    /\ UNCHANGED playerVars
    /\ UNCHANGED appVars

ToggleMute ==
    /\ ToggleMuteBody
    /\ last' = Step("toggleMute", 0)

\* ------------------------------------------------------------- seeking
\* `if (this.audio.duration)`: NaN and 0 are falsy
DurationKnown(d) == d # NaN /\ d # 0

\* the lengths of the media, in seconds
MaxDurationUnits == 2

Durations == {4 * k : k \in 1..MaxDurationUnits}

\* the loadedmetadata event: the element has read the length d of its source
LoadedMetadata(d) ==
    /\ audioSrc # NoTrack
    /\ audioDuration = NaN
    /\ audioTime <= d
    /\ audioDuration' = d
    /\ last' = Step("loadedmetadata", 0)
    /\ UNCHANGED <<currentTrack, queue, currentIndex, isPlaying, isShuffled, repeatMode,
                   audioSrc, controlsEnabled, pending, audioTime, audioPlaying>>
    /\ UNCHANGED appVars
    /\ UNCHANGED volVars

\* the fractions handed to seek, in hundredths (the progress bar's 0..100);
\* with the lengths above percent * duration is a whole number of seconds
SeekPercents == {0, 25, 50, 75, 100}

SeekTargetFromEnd(percent, duration) == duration - (percent * duration) \div 100

\* percent * this.audio.duration
SeekTarget(percent, duration) == (percent * duration) \div 100

\* the frame of a step that only moves the playback position
OnlyPositionMoves ==
    /\ UNCHANGED <<currentTrack, queue, currentIndex, isPlaying, isShuffled, repeatMode,
                   audioSrc, controlsEnabled, pending, audioDuration, audioPlaying>>
    /\ UNCHANGED appVars
    /\ UNCHANGED volVars

\* seek(percent / 100) without the record of the step
SeekBody(percent) ==
    /\ audioTime' = IF DurationKnown(audioDuration)
                    THEN SeekTarget(percent, audioDuration)
                    ELSE audioTime
    /\ OnlyPositionMoves

\* seek, also as called by the progress bar's input listener
Seek(percent) ==
    /\ SeekBody(percent)
    /\ last' = Called(Step("seek", 0), <<percent>>)

\* ------------------------------------------------------------ keyboard
Keys == {" ", "ArrowLeft", "ArrowRight", "ArrowUp", "ArrowDown", "n", "p", "s", "r", "m", "x"}

\* e.target.tagName
Tags == {"BODY", "INPUT", "TEXTAREA"}

TextTags == {"INPUT", "TEXTAREA"}

KeyCommandSwapsNextPrevious(key) ==
    CASE key = " " -> "togglePlayPause"
      [] key = "ArrowLeft" -> "seekBack"
      [] key = "ArrowRight" -> "seekForward"
      [] key = "ArrowUp" -> "volumeUp"
      [] key = "ArrowDown" -> "volumeDown"
      [] key = "n" -> "playPrevious"
      [] key = "p" -> "playNext"
      [] key = "s" -> "toggleShuffle"
      [] key = "r" -> "cycleRepeatMode"
      [] key = "m" -> "toggleMute"
      [] OTHER -> "none"

\* the switch of handleKeyboard
KeyCommand(key) ==
    CASE key = " " -> "togglePlayPause"
      [] key = "ArrowLeft" -> "seekBack"
      [] key = "ArrowRight" -> "seekForward"
      [] key = "ArrowUp" -> "volumeUp"
      [] key = "ArrowDown" -> "volumeDown"
      [] key = "n" -> "playNext"
      [] key = "p" -> "playPrevious"
      [] key = "s" -> "toggleShuffle"
      [] key = "r" -> "cycleRepeatMode"
      [] key = "m" -> "toggleMute"
      [] OTHER -> "none"

\* Math.max(0, this.audio.currentTime - 5)
SeekBackTarget(position) == Max(0, position - SeekStep)

\* Math.min(this.audio.duration, this.audio.currentTime + 5), for a duration
\* that is a number
SeekForwardTarget(position, duration) == Min(duration, position + SeekStep)

\* Math.min(NaN, x) is NaN, and assigning NaN to currentTime throws a
\* TypeError: the handler ends there with the position as it was
SeekForwardThrows == audioDuration = NaN

\* Math.min(1, this.audio.volume + 0.1)
VolumeUpTarget(output, stored) == Min(FullVolume, output + VolumeStep)

\* Math.max(0, this.audio.volume - 0.1)
VolumeDownTarget(output, stored) == Max(0, output - VolumeStep)

\* setVolume(target), then the slider is set to the output volume
VolumeKeyBody(target) ==
    /\ SetVolumeBody(target)
    /\ sliderValue' = audioVolume'

NothingChanges == UNCHANGED <<playerVars, appVars, volVars>>

RunCommand(cmd) ==
    CASE cmd = "togglePlayPause" -> TogglePlayPauseBody
      [] cmd = "seekBack" -> audioTime' = SeekBackTarget(audioTime) /\ OnlyPositionMoves
      [] cmd = "seekForward" ->
            /\ audioTime' = IF SeekForwardThrows THEN audioTime
                            ELSE SeekForwardTarget(audioTime, audioDuration)
            /\ OnlyPositionMoves
      [] cmd = "volumeUp" -> VolumeKeyBody(VolumeUpTarget(audioVolume, volume))
      [] cmd = "volumeDown" -> VolumeKeyBody(VolumeDownTarget(audioVolume, volume))
      [] cmd = "playNext" -> PlayNextBody
      [] cmd = "playPrevious" -> PlayPreviousBody(audioTime)
      [] cmd = "toggleShuffle" -> ToggleShuffleBody
      [] cmd = "cycleRepeatMode" -> CycleRepeatModeBody
      [] cmd = "toggleMute" -> ToggleMuteBody
      [] OTHER -> NothingChanges

KeyOutcome(cmd) == IF cmd = "seekForward" /\ SeekForwardThrows THEN "TypeError" ELSE "none"

KeyToasts(cmd) ==
    CASE cmd = "playNext" -> PlayNextToasts
      [] cmd = "playPrevious" -> PreviousToasts(audioTime)
      [] OTHER -> 0

\* the keydown listener; the record holds the key and the focused element
HandleKeyboard(key, tag) ==
    IF tag \in TextTags
    THEN /\ NothingChanges
         /\ last' = Called(Step("key", 0), <<key, tag>>)
    ELSE /\ RunCommand(KeyCommand(key))
         /\ last' = Called(Did("key", KeyOutcome(KeyCommand(key)), NoAttempt,
                               KeyToasts(KeyCommand(key)), NoTrack), <<key, tag>>)

\* ----------------------------------------------------- time formatting
\* times handed to formatTime are in tenths of a second, so that 65.5 s is
\* 655; NaN and Undefined stand for the values of those names
MaxFormatMinutes == 61

\* whole minutes up to the bound, seconds on both sides of the padding
\* boundary and at the end of a minute, with and without a fraction
FormatInputs ==
    {NaN, Undefined}
        \cup {600 * min + 10 * sec + tenth :
                 min \in 0..MaxFormatMinutes, sec \in {0, 5, 9, 10, 59}, tenth \in {0, 5}}

\* !seconds || isNaN(seconds)
TimeUnknown(t) == t = NaN \/ t = Undefined \/ t = 0

\* String.prototype.padStart(2, '0') on the digits of a whole number
PadStart(str) == IF Len(str) < 2 THEN "0" \o str ELSE str

FormatTimeWrapsHours(t) ==
    IF TimeUnknown(t) THEN "0:00"
    ELSE ToString((t \div 600) % 60) \o ":" \o PadStart(ToString((t % 600) \div 10))

\* Math.floor(seconds / 60) : Math.floor(seconds % 60), padded
FormatTime(t) ==
    IF TimeUnknown(t) THEN "0:00"
    ELSE ToString(t \div 600) \o ":" \o PadStart(ToString((t % 600) \div 10))

\* a call of formatTime; the record holds the argument and the result
FormatTimeCall(t) ==
    /\ last' = Called(Step("formatTime", 0), <<t, FormatTime(t)>>)
    /\ NothingChanges

HandleAudioErrorClears ==
    /\ audioSrc # NoTrack
    /\ isPlaying' = FALSE
    /\ currentTrack' = NoTrack
    /\ queue' = << >>
    /\ currentIndex' = 0 - 1
    /\ pending' = Supersede(pending, "pause")
    /\ audioPlaying' = FALSE
    /\ last' = Step("audioError", 1)
    /\ UNCHANGED <<isShuffled, repeatMode, audioSrc, controlsEnabled, audioTime,
                   audioDuration>>
    /\ UNCHANGED appVars
    /\ UNCHANGED volVars

\* the audio element's error event during playback: one toast, then pause()
HandleAudioError ==
    /\ audioSrc # NoTrack
    /\ isPlaying' = FALSE
    /\ pending' = Supersede(pending, "pause")
    /\ audioPlaying' = FALSE
    /\ last' = Step("audioError", 1)
    /\ UNCHANGED <<currentTrack, queue, currentIndex, isShuffled, repeatMode,
                   audioSrc, controlsEnabled, audioTime, audioDuration>>
    /\ UNCHANGED appVars
    /\ UNCHANGED volVars

\* ------------------------------------------- results of play attempts
\* "ok":         the promise of audio.play() is fulfilled
\* "rejected":   it is rejected (policy block, aborted request)
\* "mediaError": the bound source cannot be opened: the element fires its
\*               error event and rejects the promise
Outcomes == {"ok", "rejected", "mediaError"}

PossibleWithoutSource(att, outcome) ==
    CASE outcome = "ok" -> TRUE
      [] outcome = "rejected" -> TRUE
      [] outcome = "mediaError" -> att.src # NoTrack /\ att.src = audioSrc

\* the results an attempt can have: without a source the element never
\* starts playback
Possible(att, outcome) ==
    CASE outcome = "ok" -> att.src # NoTrack
      [] outcome = "rejected" -> TRUE
      [] outcome = "mediaError" -> att.src # NoTrack /\ att.src = audioSrc

PlayingAfterFlips(outcome) ==
    CASE outcome = "ok" -> ~isPlaying
      [] outcome = "rejected" -> isPlaying
      [] outcome = "mediaError" -> FALSE

\* isPlaying after the continuation of play() (and handleAudioError before it)
PlayingAfter(outcome) ==
    CASE outcome = "ok" -> TRUE
      [] outcome = "rejected" -> isPlaying
      [] outcome = "mediaError" -> FALSE

\* whether the element plays once the result of attempt att has arrived: a
\* fulfilled attempt started playback unless a later load or pause stopped
\* it again; the error event stops it; a rejection changes nothing
HandlePlayingAfter(att, outcome) ==
    CASE outcome = "ok" -> IF att.sup \in {"load", "pause"} THEN audioPlaying ELSE TRUE
      [] outcome = "rejected" -> audioPlaying
      [] outcome = "mediaError" -> FALSE

\* error toasts: the catch of play(), and handleAudioError for a media error
ResultToasts(outcome) ==
    CASE outcome = "ok" -> 0
      [] outcome = "rejected" -> 1
      [] outcome = "mediaError" -> 2

\* detail.track of the trackChanged event loadTrack dispatches after its await
Notified(att) == IF att.load THEN currentTrack ELSE NoTrack

PlayResult(i, outcome) ==
    /\ i \in DOMAIN pending
    /\ Possible(pending[i], outcome)
    /\ isPlaying' = PlayingAfter(outcome)
    /\ pending' = IF outcome = "mediaError"
                  THEN Supersede(RemoveAt(pending, i), "pause")
                  ELSE RemoveAt(pending, i)
    /\ audioPlaying' = HandlePlayingAfter(pending[i], outcome)
    /\ last' = Did("resolve", outcome, pending[i], ResultToasts(outcome), Notified(pending[i]))
    /\ UNCHANGED <<currentTrack, queue, currentIndex, isShuffled, repeatMode,
                   audioSrc, controlsEnabled, audioTime, audioDuration>>
    /\ UNCHANGED appVars
    /\ UNCHANGED volVars

Resolve == \E i \in 1..MaxPending : \E outcome \in Outcomes : PlayResult(i, outcome)

\* --------------------------------------------- application controller
Views == {"all-tracks", "playlists"}

\* switchView(view): the nav items; only the all-tracks view renders track cards
SwitchView(view) ==
    /\ currentView' = view
    /\ searchQuery' = ""
    /\ rendered' = IF view = "all-tracks" THEN Range(Library) ELSE {}
    /\ last' = Step("switchView", 0)
    /\ UNCHANGED currentPlaylist
    /\ UNCHANGED <<currentTrack, queue, currentIndex, isPlaying, isShuffled, repeatMode,
                   audioSrc, controlsEnabled, pending, audioTime,
                   audioDuration, audioPlaying>>
    /\ UNCHANGED volVars

\* viewPlaylist(playlistId), once API.getPlaylist has answered
ViewPlaylist(p) ==
    /\ currentPlaylist' = p
    /\ rendered' = Range(PlaylistStore[p])
    /\ currentView' = "playlist-detail"
    /\ last' = Step("viewPlaylist", 0)
    /\ UNCHANGED searchQuery
    /\ UNCHANGED <<currentTrack, queue, currentIndex, isPlaying, isShuffled, repeatMode,
                   audioSrc, controlsEnabled, pending, audioTime,
                   audioDuration, audioPlaying>>
    /\ UNCHANGED volVars

\* the answers of the search route: the library tracks matching the query;
\* the queries tried each match one track
SearchResults == {{t} : t \in Tracks}

\* handleSearch with a non-empty query, once API.searchTracks has answered
HandleSearch(results) ==
    /\ searchQuery' = "q"
    /\ rendered' = results
    /\ last' = Step("search", 0)
    /\ UNCHANGED <<currentView, currentPlaylist>>
    /\ UNCHANGED <<currentTrack, queue, currentIndex, isPlaying, isShuffled, repeatMode,
                   audioSrc, controlsEnabled, pending, audioTime,
                   audioDuration, audioPlaying>>
    /\ UNCHANGED volVars

\* the clearSearch button (and handleSearch with an empty query)
ClearSearch ==
    /\ searchQuery' = ""
    /\ rendered' = Range(Library)
    /\ last' = Step("clearSearch", 0)
    /\ UNCHANGED <<currentView, currentPlaylist>>
    /\ UNCHANGED <<currentTrack, queue, currentIndex, isPlaying, isShuffled, repeatMode,
                   audioSrc, controlsEnabled, pending, audioTime,
                   audioDuration, audioPlaying>>
    /\ UNCHANGED volVars

\* the list playTrack hands to the player as the queue
ViewQueue ==
    IF currentView = "playlist-detail" /\ currentPlaylist # 0
    THEN PlaylistStore[currentPlaylist]
    ELSE Library

\* playTrack(trackId): click on a rendered track card
PlayTrack(trackId) ==
    /\ trackId \in rendered
    /\ trackId \in Range(Library)
    /\ CanAttempt
    /\ LoadTrackEffect(trackId, TRUE, ViewQueue, FindIndex(ViewQueue, trackId))
    /\ last' = Step("playTrack", LoadToasts(trackId))
    /\ UNCHANGED <<isShuffled, repeatMode>>
    /\ UNCHANGED appVars
    /\ UNCHANGED volVars

\* ------------------------------------------------------ specification
Next ==
    \/ LoadTrackCall
    \/ QueueItemClick
    \/ Play
    \/ Pause
    \/ TogglePlayPause
    \/ PlayNext
    \/ \E elapsed \in 0..MaxElapsed : PlayPrevious(elapsed)
    \/ ToggleShuffle
    \/ CycleRepeatMode
    \/ HandleTrackEnd
    \/ HandleAudioError
    \/ Resolve

Spec == Init /\ [][Next]_vars

\* the player driven from the application's views
NextApp ==
    \/ \E view \in Views : SwitchView(view)
    \/ \E p \in DOMAIN PlaylistStore : ViewPlaylist(p)
    \/ \E results \in SearchResults : HandleSearch(results)
    \/ ClearSearch
    \/ \E trackId \in Tracks : PlayTrack(trackId)
    \/ QueueItemClick
    \/ PlayNext
    \/ \E elapsed \in 0..MaxElapsed : PlayPrevious(elapsed)
    \/ HandleTrackEnd
    \/ Resolve

SpecApp == Init /\ [][NextApp]_vars

\* the player when every command waits for the results of the play
\* attempts already made: no two attempts overlap
NextSequential ==
    \/ pending = << >> /\ LoadTrackCall
    \/ pending = << >> /\ QueueItemClick
    \/ pending = << >> /\ Play
    \/ pending = << >> /\ Pause
    \/ pending = << >> /\ TogglePlayPause
    \/ pending = << >> /\ PlayNext
    \/ pending = << >> /\ \E elapsed \in 0..MaxElapsed : PlayPrevious(elapsed)
    \/ pending = << >> /\ ToggleShuffle
    \/ pending = << >> /\ CycleRepeatMode
    \/ pending = << >> /\ HandleTrackEnd
    \/ pending = << >> /\ HandleAudioError
    \/ Resolve

SpecSequential == Init /\ [][NextSequential]_vars

\* the player with playback progressing: playPrevious reads the position
\* the element has reached; commands wait for pending results
NextPosition ==
    \/ pending = << >> /\ LoadTrackCall
    \/ pending = << >> /\ PlayNext
    \/ pending = << >> /\ PlayPrevious(audioTime)
    \/ pending = << >> /\ ToggleShuffle
    \/ pending = << >> /\ CycleRepeatMode
    \/ pending = << >> /\ HandleTrackEnd
    \/ TimeUpdate
    \/ Resolve

SpecPosition == Init /\ [][NextPosition]_vars

\* the volume controls
NextVolume ==
    \/ \E value \in VolumeInputs : SetVolume(value)
    \/ \E position \in 0..FullVolume : SliderInput(position)
    \/ ToggleMute

SpecVolume == Init /\ [][NextVolume]_vars

\* the volume keys, with the slider moved in steps of a tenth
NextVolumeKeys ==
    \/ \E position \in {p \in 0..FullVolume : p % VolumeStep = 0} : SliderInput(position)
    \/ ToggleMute
    \/ \E key \in {"ArrowUp", "ArrowDown", "m"} : \E tag \in Tags : HandleKeyboard(key, tag)

SpecVolumeKeys == Init /\ [][NextVolumeKeys]_vars

\* the player driven by the keyboard; commands wait for pending results
NextKeys ==
    \/ pending = << >> /\ LoadTrackCall
    \/ pending = << >> /\ Play
    \/ pending = << >> /\ Pause
    \/ pending = << >> /\ \E key \in {" ", "n", "p", "s", "r", "m", "x"} :
                            \E tag \in Tags : HandleKeyboard(key, tag)
    \/ TimeUpdate
    \/ Resolve

SpecKeys == Init /\ [][NextKeys]_vars

\* the playback position: metadata, progress, seek and the arrow keys
NextSeek ==
    \/ pending = << >> /\ LoadTrackCall
    \/ \E d \in Durations \cup {0} : LoadedMetadata(d)
    \/ \E percent \in SeekPercents : Seek(percent)
    \/ \E key \in {"ArrowLeft", "ArrowRight"} : \E tag \in Tags : HandleKeyboard(key, tag)
    \/ TimeUpdate
    \/ Resolve

SpecSeek == Init /\ [][NextSeek]_vars

\* unattended playback: a queue entry is playing with shuffle off, every
\* track plays to its end, every play attempt succeeds, no command is given
InitAutoplay ==
    /\ \E q \in Queues : \E i \in 0..(Len(q) - 1) :
          /\ queue = q
          /\ currentIndex = i
          /\ currentTrack = At(q, i)
    /\ audioSrc = currentTrack
    /\ controlsEnabled = TRUE
    /\ isPlaying = TRUE
    /\ audioPlaying = TRUE
    /\ isShuffled = FALSE
    /\ repeatMode \in Range(RepeatModes)
    /\ pending = << >>
    /\ currentView = "all-tracks"
    /\ currentPlaylist = 0
    /\ searchQuery = ""
    /\ rendered = Range(Library)
    /\ audioTime = 0
    /\ audioDuration = NaN
    /\ volume = InitialVolume
    /\ audioVolume = InitialVolume
    /\ sliderValue = InitialVolume
    /\ volumeIcon = "markup"
    /\ muteTrail = "none"
    /\ last = InitLast

\* the playing track reaches its end
TrackPlaysOut == audioPlaying /\ pending = << >> /\ HandleTrackEnd

\* the play attempt of the handler succeeds
AttemptSucceeds == \E i \in 1..MaxPending : PlayResult(i, "ok")

\* the position advances while the element plays
Progress == audioPlaying /\ TimeUpdate

NextAutoplay ==
    \/ TrackPlaysOut
    \/ AttemptSucceeds
    \/ Progress

SpecAutoplay ==
    /\ InitAutoplay
    /\ [][NextAutoplay]_vars
    /\ WF_vars(TrackPlaysOut)
    /\ WF_vars(AttemptSucceeds)

\* formatTime applied to every time of FormatInputs
NextFormat == \E t \in FormatInputs : FormatTimeCall(t)

SpecFormat == Init /\ [][NextFormat]_vars

\* ------------------------------------------- the superseded-load race
\* the selections the player can hold before the race: nothing, or an
\* entry of a loaded queue
PriorSelections ==
    {[q |-> << >>, i |-> 0 - 1]} \cup
    UNION {{[q |-> q, i |-> i] : i \in 0..(Len(q) - 1)} : q \in Queues}

InitRace ==
    /\ \E sel \in PriorSelections :
          /\ queue = sel.q
          /\ currentIndex = sel.i
          /\ currentTrack = (IF sel.q = << >> THEN NoTrack ELSE At(sel.q, sel.i))
    /\ audioSrc = currentTrack
    /\ controlsEnabled = (currentTrack # NoTrack)
    /\ isPlaying \in (IF currentTrack = NoTrack THEN {FALSE} ELSE BOOLEAN)
    /\ isShuffled \in BOOLEAN
    /\ repeatMode \in Range(RepeatModes)
    /\ pending = << >>
    /\ currentView = "all-tracks"
    /\ currentPlaylist = 0
    /\ searchQuery = ""
    /\ rendered = Range(Library)
    /\ audioTime = 0
    /\ audioDuration = NaN
    /\ audioPlaying = isPlaying
    /\ volume = InitialVolume
    /\ audioVolume = InitialVolume
    /\ sliderValue = InitialVolume
    /\ volumeIcon = "markup"
    /\ muteTrail = "none"
    /\ last = InitLast

\* loadTrack(B, [A,B,C], 1)
FirstLoad ==
    /\ last.op = "init"
    /\ LoadTrack(2, TRUE, <<1, 2, 3>>, 1)

\* loadTrack(D, [D], 0) while the attempt of the first call is pending
SecondLoad ==
    /\ last.op = "loadTrack"
    /\ Len(pending) = 1
    /\ pending[1].src = 2
    /\ LoadTrack(4, TRUE, <<4>>, 0)

NextRace ==
    \/ FirstLoad
    \/ SecondLoad
    \/ Resolve

SpecRace == InitRace /\ [][NextRace]_vars

\* ============================================================ claims

\* both calls of the race were made and both results have arrived
RaceDone ==
    /\ pending = << >>
    /\ last.op = "resolve"
    /\ (last.att.src = 4 \/ last.att.sup # "no")

\* C1: after loadTrack(B,[A,B,C],1) is followed by loadTrack(D,[D],0) while
\* the first play attempt is pending, once both results have arrived, in
\* any order and with any outcomes, currentTrack = D, queue = [D] and
\* currentIndex = 0.
C1_RaceEndsOnD ==
    RaceDone => (currentTrack = 4 /\ queue = <<4>> /\ currentIndex = 0)

\* the superseded attempt of B succeeded late, after the attempt of D failed
C1_Witness ==
    /\ RaceDone
    /\ last.att.src = 2
    /\ last.outcome = "ok"
    /\ currentTrack = 4

\* C2: the result of a play attempt that a later loadTrack superseded
\* changes none of currentTrack, queue, currentIndex and isPlaying.
C2_SupersededResultInert ==
    [][(last'.op = "resolve" /\ last'.att.sup = "load")
          => (/\ currentTrack' = currentTrack
              /\ queue' = queue
              /\ currentIndex' = currentIndex
              /\ isPlaying' = isPlaying)]_vars

\* C3: when pause() was issued while a play attempt was pending, the
\* arrival of that attempt's result leaves isPlaying false.
C3_PauseSupersedesAttempt ==
    [][(last'.op = "resolve" /\ last'.att.sup = "pause" /\ ~isPlaying) => ~isPlaying']_vars

\* C4: currentIndex is -1 or a valid index into the queue.
C4_IndexValid ==
    currentIndex = 0 - 1 \/ (currentIndex >= 0 /\ currentIndex < Len(queue))

\* playNext wrapped from the last entry of a three-entry queue to the first
C4_Witness ==
    /\ last.op = "playNext"
    /\ ~isShuffled
    /\ Len(queue) = 3
    /\ currentIndex = 0
    /\ currentTrack = queue[1]

\* C5: currentTrack is none or the entry of the queue at currentIndex.
C5_CurrentTrackIsQueueEntry ==
    currentTrack = NoTrack \/ At(queue, currentIndex) = currentTrack

\* C6: when the play attempt of a loadTrack fails (and no later command was
\* issued meanwhile) the controller is paused on the track of that call.
C6_FailedLoadSettlesPaused ==
    (last.op = "resolve" /\ last.att.load /\ last.att.sup = "no" /\ last.outcome # "ok")
        => (~isPlaying /\ currentTrack = last.att.src)

\* C7: when a play() on the loaded track is rejected (and no later command
\* was issued meanwhile) isPlaying is false.
C7_RejectedPlayLeavesPaused ==
    (last.op = "resolve" /\ ~last.att.load /\ last.att.sup = "no" /\ last.outcome # "ok")
        => ~isPlaying

\* a step in which an error occurred: a failed play attempt or a media error
ErrorOccurred ==
    \/ last.op = "audioError"
    \/ last.op = "resolve" /\ last.outcome # "ok"

\* C8: a step shows exactly one error message if an error occurred in it,
\* and none otherwise.
C8_OneMessagePerError ==
    last.toasts = (IF ErrorOccurred THEN 1 ELSE 0)

\* C9: no loadTrack call is still waiting to emit its trackChanged
\* notification once its synchronous part is over, and a notification
\* carries the track its own call loaded.
C9_NotifiedAtLoad ==
    /\ \A i \in DOMAIN pending : ~pending[i].load
    /\ last.notified # NoTrack => last.notified = last.att.src

\* C10: with shuffle off and a non-empty queue of length n, playNext moves
\* currentIndex to (currentIndex + 1) mod n, keeps the queue and selects the
\* entry at the new index, whatever play attempts are pending.
C10_PlayNextCyclic ==
    [][(last'.op = "playNext" /\ ~isShuffled /\ Len(queue) > 0)
          => (/\ currentIndex' = (currentIndex + 1) % Len(queue)
              /\ queue' = queue
              /\ currentTrack' = At(queue, currentIndex'))]_vars

\* playNext wrapped to index 0 while the attempt of an earlier call was pending
C10_Witness ==
    /\ last.op = "playNext"
    /\ ~isShuffled
    /\ Len(queue) = 3
    /\ currentIndex = 0
    /\ Len(pending) = 2
    /\ pending[1].sup = "load"

\* the attempt the latest call of play() opened
NewestAttempt(p) == p[Len(p)]

\* C11: on a non-empty queue playPrevious with at most 3 s elapsed moves
\* currentIndex to (currentIndex - 1 + n) mod n and loads that entry of the
\* unchanged queue; with more than 3 s elapsed it keeps currentIndex,
\* currentTrack and queue and sets the position to 0; on an empty queue it
\* changes nothing.
C11_PlayPrevious ==
    [][last'.op = "playPrevious"
          => IF Len(queue) = 0
             THEN UNCHANGED playerVars
             ELSE IF audioTime > 3
             THEN /\ audioTime' = 0
                  /\ UNCHANGED <<currentIndex, currentTrack, queue>>
             ELSE /\ currentIndex' = (currentIndex - 1 + Len(queue)) % Len(queue)
                  /\ queue' = queue
                  /\ currentTrack' = At(queue, currentIndex')
                  /\ audioSrc' = currentTrack'
                  /\ Len(pending') = Len(pending) + 1
                  /\ NewestAttempt(pending').load]_vars

\* playPrevious went back from the first entry of a three-entry queue to the last
C11_Witness ==
    /\ last.op = "playPrevious"
    /\ Len(queue) = 3
    /\ currentIndex = 2
    /\ currentTrack = queue[3]
    /\ Len(pending) = 1

\* C12: a track-ended event with repeatMode off at the last queue position
\* pauses with position 0, keeps currentIndex, currentTrack and the queue and
\* starts no play attempt, whatever the shuffle flag.
C12_StopAtQueueEnd ==
    [][(last'.op = "ended" /\ repeatMode = "off" /\ currentIndex = Len(queue) - 1)
          => (/\ ~isPlaying'
              /\ audioTime' = 0
              /\ UNCHANGED <<currentIndex, currentTrack, queue, audioSrc>>
              /\ Len(pending') = Len(pending))]_vars

\* the last track of a three-entry queue ended in shuffle mode with repeat off
C12_Witness ==
    /\ last.op = "ended"
    /\ repeatMode = "off"
    /\ isShuffled
    /\ Len(queue) = 3
    /\ currentIndex = 2
    /\ ~isPlaying
    /\ pending = << >>

\* C13: a track-ended event with repeatMode one keeps currentIndex,
\* currentTrack and the queue, sets the position to 0 and requests play() on
\* the same track.
C13_RepeatOneReplays ==
    [][(last'.op = "ended" /\ repeatMode = "one")
          => (/\ UNCHANGED <<currentIndex, currentTrack, queue, audioSrc>>
              /\ audioTime' = 0
              /\ Len(pending') = Len(pending) + 1
              /\ ~NewestAttempt(pending').load
              /\ NewestAttempt(pending').src = currentTrack)]_vars

\* the last track of a queue ended with repeat one and shuffle on
C13_Witness ==
    /\ last.op = "ended"
    /\ repeatMode = "one"
    /\ isShuffled
    /\ Len(queue) = 3
    /\ currentIndex = 2
    /\ Len(pending) = 1
    /\ ~pending[1].load

\* C14: a track-ended event with repeatMode all, or with repeatMode off
\* before the last queue position, does what playNext does: it selects an
\* index of the unchanged queue, (currentIndex + 1) mod n with shuffle off,
\* loads that entry and requests play; it does not write isPlaying.
C14_EndedPlaysNext ==
    [][(/\ last'.op = "ended"
        /\ Len(queue) > 0
        /\ (repeatMode = "all" \/ (repeatMode = "off" /\ currentIndex < Len(queue) - 1)))
          => (/\ queue' = queue
              /\ currentIndex' \in 0..(Len(queue) - 1)
              /\ (~isShuffled => currentIndex' = (currentIndex + 1) % Len(queue))
              /\ currentTrack' = At(queue, currentIndex')
              /\ audioSrc' = currentTrack'
              /\ Len(pending') = Len(pending) + 1
              /\ NewestAttempt(pending').load
              /\ NewestAttempt(pending').src = currentTrack'
              /\ isPlaying' = isPlaying)]_vars

\* repeat all wrapped from the last entry to the first while playing
C14_Witness ==
    /\ last.op = "ended"
    /\ repeatMode = "all"
    /\ ~isShuffled
    /\ Len(queue) = 3
    /\ currentIndex = 0
    /\ isPlaying

\* C15: right after loadTrack(track, queue, startIndex), with its play
\* attempt still pending, the queue is the given queue, currentIndex is
\* startIndex and currentTrack is track; after loadTrack(track) the queue is
\* [track] and currentIndex is 0.
C15_LoadReplacesQueue ==
    last.op = "loadTrack"
        => (/\ currentTrack = last.call[1]
            /\ queue = (IF last.call[2] THEN last.call[3] ELSE <<last.call[1]>>)
            /\ currentIndex = (IF last.call[2] THEN last.call[4] ELSE 0)
            /\ Len(pending) > 0
            /\ NewestAttempt(pending).load
            /\ NewestAttempt(pending).src = last.call[1])

\* loadTrack(B, [A,B,C], 1) was called while an earlier attempt was pending
C15_Witness ==
    /\ last.op = "loadTrack"
    /\ last.call = <<2, TRUE, <<1, 2, 3>>, 1>>
    /\ Len(pending) = 2
    /\ queue = <<1, 2, 3>>

\* C16: in shuffle mode playNext on a non-empty queue can select every index
\* of the queue, the current one included, and selects nothing else; in both
\* modes it keeps the queue and loads the entry at the new index; on an empty
\* queue it changes nothing.
C16_ShufflePicksAnyIndex ==
    /\ []((isShuffled /\ Len(queue) > 0 /\ CanAttempt)
            => \A k \in 0..(Len(queue) - 1) : ENABLED (PlayNext /\ currentIndex' = k))
    /\ [][last'.op = "playNext"
            => IF Len(queue) = 0
               THEN UNCHANGED playerVars
               ELSE /\ queue' = queue
                    /\ currentIndex' \in 0..(Len(queue) - 1)
                    /\ currentTrack' = At(queue, currentIndex')
                    /\ audioSrc' = currentTrack']_vars

\* playNext ran in shuffle mode on a three-entry queue
C16_Witness ==
    /\ last.op = "playNext"
    /\ isShuffled
    /\ Len(queue) = 3
    /\ currentIndex = 2
    /\ currentTrack = queue[3]

\* C17: toggleShuffle flips isShuffled and changes nothing else of the
\* session: queue, currentIndex, currentTrack, isPlaying, repeatMode and the
\* volume stay as they were (so a second toggle restores the flag).
C17_ToggleShuffleFlipsOnly ==
    [][last'.op = "toggleShuffle"
          => (/\ isShuffled' = ~isShuffled
              /\ UNCHANGED <<queue, currentIndex, currentTrack, isPlaying, repeatMode,
                             volume, audioVolume>>)]_vars

\* shuffle was switched on while the second of three entries was playing
C17_Witness ==
    /\ last.op = "toggleShuffle"
    /\ isShuffled
    /\ Len(queue) = 3
    /\ currentIndex = 1
    /\ isPlaying

\* the cycle the claim names
ClaimedNextMode(mode) ==
    CASE mode = "off" -> "all"
      [] mode = "all" -> "one"
      [] mode = "one" -> "off"

\* C18: repeatMode is always off, all or one, cycleRepeatMode moves it along
\* off -> all -> one -> off, and from the current mode three applications
\* come back to it while one or two do not.
C18_RepeatCycle ==
    /\ [](/\ repeatMode \in {"off", "all", "one"}
          /\ NextMode(NextMode(NextMode(repeatMode))) = repeatMode
          /\ NextMode(repeatMode) # repeatMode
          /\ NextMode(NextMode(repeatMode)) # repeatMode)
    /\ [][last'.op = "cycleRepeatMode" => repeatMode' = ClaimedNextMode(repeatMode)]_vars

\* cycleRepeatMode came back to off
C18_Witness ==
    /\ last.op = "cycleRepeatMode"
    /\ repeatMode = "off"

\* C19 as claimed: after a toggleMute pair begun with audible output the
\* output is the stored volume, also when setVolume was called between the
\* two toggles.
C19_MutePairRestores ==
    muteTrail \in {"done", "doneAfterSet"} => audioVolume = volume

\* C19 as amended: toggleMute keeps the stored volume, sets the output to 0
\* when it was above 0 and to the stored volume otherwise, and the second of
\* two toggles in direct succession, begun with audible output, leaves the
\* output at the stored volume.
C19_MuteToggle ==
    [][last'.op = "toggleMute"
          => (/\ volume' = volume
              /\ audioVolume' = (IF audioVolume > 0 THEN 0 ELSE volume)
              /\ (muteTrail' = "done" => audioVolume' = volume))]_vars

\* setVolume(0.3), then mute and unmute
C19_Witness ==
    /\ muteTrail = "done"
    /\ volume = 30
    /\ audioVolume = 30

\* C20: the stored and the output volume lie in [0,1]; setVolume(v) stores
\* and applies v clamped to [0,1]; once the controller has written the icon
\* it shows muted for output 0, low below 0.5 and full from 0.5 on.
C20_VolumeClamped ==
    /\ volume >= 0 /\ volume <= 100
    /\ audioVolume >= 0 /\ audioVolume <= 100
    /\ last.op = "setVolume"
          => (/\ volume = (IF last.call[1] < 0 THEN 0
                           ELSE IF last.call[1] > 100 THEN 100 ELSE last.call[1])
              /\ audioVolume = volume)
    /\ volumeIcon # "markup"
          => volumeIcon = (IF audioVolume = 0 THEN "muted"
                           ELSE IF audioVolume < 50 THEN "low" ELSE "full")

\* setVolume was called with a value below 0
C20_Witness ==
    /\ last.op = "setVolume"
    /\ last.call[1] < 0
    /\ volume = 0
    /\ volumeIcon = "muted"

\* C21: a media error (the element's error event, alone or together with
\* the rejection of a play attempt) leaves isPlaying false, shows an error
\* message and keeps currentTrack, queue, currentIndex, isShuffled,
\* repeatMode and volume; after it play() and loadTrack() are still accepted.
C21_MediaErrorPauses ==
    /\ [][(last'.op = "audioError" \/ (last'.op = "resolve" /\ last'.outcome = "mediaError"))
            => (/\ ~isPlaying'
                /\ last'.toasts >= 1
                /\ UNCHANGED <<currentTrack, queue, currentIndex, isShuffled, repeatMode,
                               volume>>)]_vars
    /\ []((last.op = "audioError" /\ CanAttempt) => (ENABLED Play /\ ENABLED LoadTrackCall))

\* the error event arrived on the second of three entries, shuffle on, repeat one
C21_Witness ==
    /\ last.op = "audioError"
    /\ ~isPlaying
    /\ currentTrack = 2
    /\ queue = <<1, 2, 3>>
    /\ currentIndex = 1
    /\ isShuffled
    /\ repeatMode = "one"

\* C22: the transport controls are enabled exactly when a track is loaded:
\* they are disabled in the initial state, where nothing is selected and
\* isPlaying is false, and enabled from the first loadTrack on; while no
\* track is loaded no step other than loadTrack, key events included, makes
\* isPlaying true or changes currentTrack, the queue or currentIndex.
C22_ControlsFollowIdle ==
    /\ [](controlsEnabled <=> currentTrack # NoTrack)
    /\ [](currentTrack = NoTrack
            => (queue = << >> /\ currentIndex = 0 - 1 /\ ~isPlaying))
    /\ [][(currentTrack = NoTrack /\ last'.op # "loadTrack")
            => (~isPlaying' /\ UNCHANGED <<currentTrack, queue, currentIndex>>)]_vars

\* the space key was pressed before any track was loaded
C22_Witness ==
    /\ last.op = "key"
    /\ last.call = <<" ", "BODY">>
    /\ currentTrack = NoTrack
    /\ ~controlsEnabled
    /\ Len(pending) = 1

\* C23: play() while playing changes nothing, and its success leaves
\* isPlaying true and the rest of the state as it was; pause() while paused
\* changes nothing; pause() with no track loaded leaves the controller with
\* no track, controls disabled and isPlaying false.
C23_PlayPauseIdempotent ==
    [][/\ (last'.op = "play" /\ isPlaying)
            => UNCHANGED <<currentTrack, queue, currentIndex, isPlaying, isShuffled,
                           repeatMode, audioSrc, controlsEnabled, audioTime, volume,
                           audioVolume>>
       /\ (last'.op = "resolve" /\ last'.outcome = "ok" /\ isPlaying)
            => (/\ isPlaying'
                /\ UNCHANGED <<currentTrack, queue, currentIndex, isShuffled, repeatMode,
                               audioSrc, controlsEnabled, audioTime, volume, audioVolume>>)
       /\ (last'.op = "pause" /\ ~isPlaying)
            => UNCHANGED <<currentTrack, queue, currentIndex, isPlaying, isShuffled,
                           repeatMode, audioSrc, controlsEnabled, pending, audioTime,
                           volume, audioVolume>>
       /\ (last'.op = "pause" /\ currentTrack = NoTrack)
            => (currentTrack' = NoTrack /\ ~isPlaying' /\ ~controlsEnabled')]_vars

\* play() was called while the loaded track was playing
C23_Witness ==
    /\ last.op = "play"
    /\ isPlaying
    /\ audioPlaying
    /\ Len(pending) = 1
    /\ currentTrack = 2

\* C24: seek(fraction) with a known duration sets the position to
\* fraction x duration; with the duration unknown (NaN or 0) it leaves the
\* position as it was; either way it changes nothing else.
C24_SeekSetsPosition ==
    [][last'.op = "seek"
          => (/\ IF audioDuration # NaN /\ audioDuration # 0
                 THEN audioTime' * 100 = last'.call[1] * audioDuration
                 ELSE audioTime' = audioTime
              /\ UNCHANGED <<currentTrack, queue, currentIndex, isPlaying, isShuffled,
                             repeatMode, audioSrc, pending, audioDuration, volume,
                             audioVolume>>)]_vars

\* seek(0.75) on a track of 8 seconds
C24_Witness ==
    /\ last.op = "seek"
    /\ last.call = <<75>>
    /\ audioDuration = 8
    /\ audioTime = 6

\* the relation a key press has to satisfy when the focus is not in a text
\* input: that of the operation the key is mapped to
KeyDoes(key) ==
    CASE key = " " -> TogglePlayPauseBody
      [] key = "n" -> PlayNextBody
      [] key = "p" -> PlayPreviousBody(audioTime)
      [] key = "s" -> ToggleShuffleBody
      [] key = "r" -> CycleRepeatModeBody
      [] key = "m" -> ToggleMuteBody
      [] OTHER -> UNCHANGED <<playerVars, appVars, volVars>>

\* C25: a key event with the focus in a text input changes no state; with
\* any other focus space, n, p, s, r and m do exactly what togglePlayPause,
\* playNext, playPrevious, toggleShuffle, cycleRepeatMode and toggleMute
\* do, and an unmapped key changes nothing.
C25_KeysRunCommands ==
    [][last'.op = "key"
          => IF last'.call[2] \in {"INPUT", "TEXTAREA"}
             THEN UNCHANGED <<playerVars, appVars, volVars>>
             ELSE KeyDoes(last'.call[1])]_vars

\* the n key wrapped from the last entry of a three-entry queue to the first
C25_Witness ==
    /\ last.op = "key"
    /\ last.call = <<"n", "BODY">>
    /\ ~isShuffled
    /\ Len(queue) = 3
    /\ currentIndex = 0
    /\ Len(pending) = 1

\* C26: with the focus outside a text input the up and down arrow keys set
\* the stored volume to the stored volume plus or minus 0.1, clamped to
\* [0,1], also while the output is muted.
C26_VolumeKeysUseSetting ==
    [][(last'.op = "key" /\ last'.call[2] = "BODY"
          /\ last'.call[1] \in {"ArrowUp", "ArrowDown"})
          => volume' = (IF last'.call[1] = "ArrowUp"
                        THEN (IF volume + 10 > 100 THEN 100 ELSE volume + 10)
                        ELSE (IF volume - 10 < 0 THEN 0 ELSE volume - 10))]_vars

\* C27: the position is never negative and never beyond a known duration,
\* and no arrow-key seek ends in an error, also while the duration is
\* unknown.
C27_ArrowSeekStaysValid ==
    /\ audioTime >= 0
    /\ audioDuration # NaN => audioTime <= audioDuration
    /\ last.op = "key" => last.outcome # "TypeError"

C29_FlagAgreesWithHandle ==
    (pending = << >> /\ isPlaying) => (audioPlaying /\ audioSrc = currentTrack)

\* C30: with shuffle off, every track playing out and every attempt
\* succeeding, repeat off moves the index only by the ended handler and only
\* to the next entry, and the player ends paused on the last entry at
\* position 0 for good; repeat all never leaves the playing state.
C30_AutoplayRunsOut ==
    /\ [][(repeatMode = "off" /\ currentIndex' # currentIndex)
             => (last'.op = "ended" /\ currentIndex' = currentIndex + 1)]_vars
    /\ (repeatMode = "off")
          => <>[](/\ ~isPlaying
                  /\ ~audioPlaying
                  /\ pending = << >>
                  /\ currentIndex = Len(queue) - 1
                  /\ audioTime = 0)
    /\ (repeatMode = "all") => [](isPlaying)

\* the last of three or more entries has played out with repeat off
C30_Witness ==
    /\ repeatMode = "off"
    /\ last.op = "ended"
    /\ Len(queue) >= 3
    /\ currentIndex = Len(queue) - 1
    /\ ~isPlaying
    /\ audioTime = 0

====
